---- MODULE Spec2Model ----
(***************************************************************************)
(* Model of the todo request handler of src/src/handler.ts: the Lambda     *)
(* entry point `main`, its five operation handlers, the response builder,  *)
(* the metric helper, and the two collaborators the handler calls (the     *)
(* DynamoDB table and the CloudWatch metric sink).                         *)
(*                                                                         *)
(* JavaScript objects and DynamoDB items are TLA+ functions whose DOMAIN   *)
(* is the set of properties that are defined: an `undefined` property is   *)
(* a name that is not in the DOMAIN.  Request and response bodies are the  *)
(* JSON texts themselves (TLA+ strings), built by JSONstringify and read   *)
(* back by JSONparse.                                                      *)
(*                                                                         *)
(* Spec follows one instance of the function answering one request after  *)
(* another.  SpecConcurrent follows two instances answering updates side   *)
(* by side on the same table.                                              *)
(***************************************************************************)
EXTENDS Integers, Sequences, FiniteSets, TLC

VARIABLES
    store,      \* the table: a function from the keys present to their items
    clock,      \* the last wall-clock reading (milliseconds)
    deleted,    \* the keys a DeleteCommand has removed so far
    event,      \* the request being answered
    response,   \* what main returned for it
    calls,      \* the collaborator calls main made for it, in order
    writes,     \* the writes the table has taken so far
    inflight    \* the update requests of the concurrent instances

vars == <<store, clock, deleted, event, response, calls, writes, inflight>>

(***************************** bounds **************************************)
MaxId == 2          \* distinct identifiers (uuid values and path ids)
MaxTime == 1        \* the clock runs over 0..MaxTime milliseconds
MaxWrites == 3      \* the table is followed through this many writes

(************************* values and inputs *******************************)
EmptyObject == <<>>

\* uuid strings; a client may put any of them in a path
UuidOf(i) == "uuid-" \o ToString(i)
IDs == {UuidOf(i) : i \in 1..MaxId}

Times == 0..MaxTime

\* Date.prototype.toISOString on a reading of t milliseconds after the epoch
toISOString(t) == "1970-01-01T00:00:00.00" \o ToString(t) \o "Z"

\* the JSON objects a client sends
BodyObjects ==
    {"title" :> "",
     "title" :> "a",
     "title" :> "b",
     ("title" :> "a") @@ ("description" :> "d"),
     ("title" :> "a") @@ ("completed" :> TRUE),
     "completed" :> TRUE,
     "completed" :> FALSE}

(******************************* JSON **************************************)
Quote(s) == "\"" \o s \o "\""

\* members are written in one fixed order, the order in which createTodo
\* builds a Todo; an item the table returns is written in that order too
KeyOrder == <<"error", "todoId", "title", "description", "completed",
              "createdAt", "updatedAt">>

StringifyValue(k, v) ==
    IF k = "completed" THEN (IF v THEN "true" ELSE "false") ELSE Quote(v)

RECURSIVE StringifyMembers(_, _, _)
StringifyMembers(obj, i, first) ==
    IF i > Len(KeyOrder) THEN ""
    ELSE LET k == KeyOrder[i] IN
         IF k \in DOMAIN obj
         THEN (IF first THEN "" ELSE ",") \o Quote(k) \o ":"
              \o StringifyValue(k, obj[k]) \o StringifyMembers(obj, i + 1, FALSE)
         ELSE StringifyMembers(obj, i + 1, first)

\* a flat object: undefined properties are left out
StringifyObject(obj) == "{" \o StringifyMembers(obj, 1, TRUE) \o "}"

RECURSIVE StringifyArray(_, _)
StringifyArray(items, i) ==
    IF i > Len(items) THEN ""
    ELSE (IF i = 1 THEN "" ELSE ",") \o StringifyObject(items[i])
         \o StringifyArray(items, i + 1)

\* JSON.stringify of the objects the handler serialises: { todos: [...] } or
\* a flat object
JSONstringify(obj) ==
    IF "todos" \in DOMAIN obj
    THEN "{" \o Quote("todos") \o ":[" \o StringifyArray(obj.todos, 1) \o "]}"
    ELSE StringifyObject(obj)

\* the body texts a request may carry: a serialised object, or text that is
\* not JSON; NoBody is event.body === null
NoBody == "<null>"
MalformedBody == "{ invalid json }"
BodyTexts == {JSONstringify(b) : b \in BodyObjects} \cup {MalformedBody}
EventBodies == BodyTexts \cup {NoBody}

\* JSON.parse: the object the text denotes, or a SyntaxError
Denotations == {b \in BodyObjects \cup {EmptyObject} : TRUE}
ParseTable ==
    [text \in BodyTexts \cup {"{}"} |->
        IF \E b \in Denotations : JSONstringify(b) = text
        THEN [threw |-> FALSE,
              value |-> CHOOSE b \in Denotations : JSONstringify(b) = text]
        ELSE [threw |-> TRUE, value |-> EmptyObject]]
JSONparse(text) == ParseTable[text]

(***************************** responses ***********************************)
Headers ==
    [ContentType |-> "application/json",
     AccessControlAllowOrigin |-> "*",
     AccessControlAllowMethods |-> "GET,POST,PUT,DELETE,OPTIONS"]

createResponse(statusCode, body) ==
    [statusCode |-> statusCode, headers |-> Headers, body |-> JSONstringify(body)]

\* the error responses of the handler
TitleRequired == createResponse(400, "error" :> "Title is required")
NoValidFields == createResponse(400, "error" :> "No valid fields to update")
TodoNotFound == createResponse(404, "error" :> "Todo not found")
MethodNotAllowed == createResponse(405, "error" :> "Method not allowed")
InternalServerError == createResponse(500, "error" :> "Internal server error")

(*************************** collaborators *********************************)
\* What a collaborator call may fail with, beside the failures the handler
\* asks for itself (the delete's condition): a request the service rejects
\* as invalid (for instance an item over the size limit) or a service fault.
NoFault == "none"
Faults == {NoFault, "ValidationException", "InternalServerError"}

MetricFaults == {NoFault, "InternalServerError"}

DynamoCall(command, key, error) ==
    [service |-> "dynamodb", command |-> command, key |-> key, error |-> error]

\* the result of awaiting a send: rejected with an error name, or resolved
\* with an output, the table as the call left it, and the call's log entry
Rejected(error, call) ==
    [threw |-> TRUE, error |-> error, output |-> EmptyObject, call |-> call]
Resolved(output, table, call) ==
    [threw |-> FALSE, error |-> NoFault, output |-> output, table |-> table,
     call |-> call]

\* the table with item written under key
WithItem(table, key, item) ==
    [k \in DOMAIN table \cup {key} |-> IF k = key THEN item ELSE table[k]]

\* the table without key
WithoutItem(table, key) == [k \in DOMAIN table \ {key} |-> table[k]]

\* PutCommand { Item }: writes the whole item under its key, replacing any
\* item already there
SendPut(item, table, fault) ==
    LET call == DynamoCall("PutCommand", item.todoId, fault) IN
    IF fault # NoFault THEN Rejected(fault, call)
    ELSE Resolved(EmptyObject, WithItem(table, item.todoId, item), call)

\* GetCommand { Key }: Item is the stored item, or undefined
SendGet(key, table, fault) ==
    LET call == DynamoCall("GetCommand", key, fault) IN
    IF fault # NoFault THEN Rejected(fault, call)
    ELSE Resolved(IF key \in DOMAIN table THEN "Item" :> table[key]
                  ELSE EmptyObject, table, call)

\* ScanCommand: Items are the stored items, in the order the table yields
\* them (order is one enumeration of the keys)
SendScan(order, table, fault) ==
    LET call == DynamoCall("ScanCommand", "*", fault) IN
    IF fault # NoFault THEN Rejected(fault, call)
    ELSE Resolved("Items" :> [i \in 1..Len(order) |-> table[order[i]]],
                  table, call)

\* an update that puts the key and the given values in place of the item
SendUpdateReplacesItem(key, sets, table, fault) ==
    LET call == DynamoCall("UpdateCommand", key, fault)
        new == sets @@ ("todoId" :> key)
    IN  IF fault # NoFault THEN Rejected(fault, call)
        ELSE Resolved("Attributes" :> new, WithItem(table, key, new), call)

\* UpdateCommand { Key, UpdateExpression: SET ..., ReturnValues: ALL_NEW },
\* sent without a ConditionExpression: the SET clauses are applied to the
\* item under Key, and when there is none the item is made of the key and
\* the SET attributes.  Attributes is the item after the update.
SendUpdate(key, sets, table, fault) ==
    LET call == DynamoCall("UpdateCommand", key, fault)
        old == IF key \in DOMAIN table THEN table[key] ELSE "todoId" :> key
        new == sets @@ old
    IN  IF fault # NoFault THEN Rejected(fault, call)
        ELSE Resolved("Attributes" :> new, WithItem(table, key, new), call)

\* DeleteCommand { Key, ConditionExpression: attribute_exists(todoId) }
SendDelete(key, table, fault) ==
    IF fault # NoFault
    THEN Rejected(fault, DynamoCall("DeleteCommand", key, fault))
    ELSE IF key \notin DOMAIN table
    THEN Rejected("ConditionalCheckFailedException",
                  DynamoCall("DeleteCommand", key,
                             "ConditionalCheckFailedException"))
    ELSE Resolved(EmptyObject, WithoutItem(table, key),
                  DynamoCall("DeleteCommand", key, NoFault))

\* cloudWatch.send(PutMetricDataCommand): one data point in namespace TodoApp
SendMetric(metricName, value, fault) ==
    [threw |-> fault # NoFault, error |-> fault,
     call |-> [service |-> "cloudwatch", command |-> "PutMetricDataCommand",
               metricName |-> metricName, value |-> value, error |-> fault]]

\* putMetric without its try/catch: the rejection reaches the caller
putMetricUncaught(metricName, value, fault) ==
    LET sent == SendMetric(metricName, value, fault) IN
    [threw |-> sent.threw, error |-> sent.error, call |-> sent.call]

\* putMetric awaits the send and catches whatever it rejects with
putMetric(metricName, value, fault) ==
    LET sent == SendMetric(metricName, value, fault) IN
    [threw |-> FALSE, error |-> NoFault, call |-> sent.call]

(******************************* handlers **********************************)
\* How a handler ends: it returns a response or throws, having left the
\* table as `table`, the clock at its last reading `now`, and having made
\* the collaborator calls `made`.
Returns(resp, table, now, made) ==
    [threw |-> FALSE, error |-> NoFault, response |-> resp, table |-> table,
     now |-> now, made |-> made]
Throws(error, table, now, made) ==
    [threw |-> TRUE, error |-> error, response |-> EmptyObject, table |-> table,
     now |-> now, made |-> made]

\* JSON.parse(event.body || '{}')
ParseBody(ev) == JSONparse(IF ev.body \in {NoBody, ""} THEN "{}" ELSE ev.body)

\* a test for definedness where the code tests truthiness
TruthyWhenDefined(obj, k) == k \in DOMAIN obj

\* JavaScript truthiness of a property that is undefined or a string
Truthy(obj, k) == k \in DOMAIN obj /\ obj[k] # ""

\* The environment of one request, env: the uuid uuidv4() yields, the
\* readings t1 and t2 of the first and second `new Date()`, the fault (if
\* any) of the table call and of the metric call, and the scan order.

\* createTodo leaving the given description out of the item
createTodoDropsDescription(ev, env, table, now) ==
    LET parsed == ParseBody(ev)
        body == parsed.value
        todo == [todoId |-> env.uuid,
                 title |-> body.title,
                 description |-> "",
                 completed |-> FALSE,
                 createdAt |-> toISOString(env.t1),
                 updatedAt |-> toISOString(env.t2)]
        put == SendPut(todo, table, env.fault)
        metric == putMetric("TodoCreatedCount", 1, env.metricFault)
    IN  IF parsed.threw THEN Throws("SyntaxError", table, now, <<>>)
        ELSE IF ~Truthy(body, "title")
        THEN Returns(TitleRequired, table, now, <<>>)
        ELSE IF put.threw THEN Throws(put.error, table, env.t2, <<put.call>>)
        ELSE IF metric.threw
        THEN Throws(metric.error, put.table, env.t2, <<put.call, metric.call>>)
        ELSE Returns(createResponse(201, todo), put.table, env.t2,
                     <<put.call, metric.call>>)

createTodo(ev, env, table, now) ==
    LET parsed == ParseBody(ev)
        body == parsed.value
        todo == [todoId |-> env.uuid,
                 title |-> body.title,
                 description |-> IF Truthy(body, "description")
                                 THEN body.description ELSE "",
                 completed |-> FALSE,
                 createdAt |-> toISOString(env.t1),
                 updatedAt |-> toISOString(env.t2)]
        put == SendPut(todo, table, env.fault)
        metric == putMetric("TodoCreatedCount", 1, env.metricFault)
    IN  IF parsed.threw THEN Throws("SyntaxError", table, now, <<>>)
        ELSE IF ~Truthy(body, "title")
        THEN Returns(TitleRequired, table, now, <<>>)
        ELSE IF put.threw THEN Throws(put.error, table, env.t2, <<put.call>>)
        ELSE IF metric.threw
        THEN Throws(metric.error, put.table, env.t2, <<put.call, metric.call>>)
        ELSE Returns(createResponse(201, todo), put.table, env.t2,
                     <<put.call, metric.call>>)

\* getTodo without the check of result.Item
getTodoWithoutItemCheck(todoId, env, table, now) ==
    LET result == SendGet(todoId, table, env.fault) IN
    IF result.threw THEN Throws(result.error, table, now, <<result.call>>)
    ELSE Returns(createResponse(200,
                    IF "Item" \in DOMAIN result.output
                    THEN result.output.Item ELSE EmptyObject),
                 table, now, <<result.call>>)

getTodo(todoId, env, table, now) ==
    LET result == SendGet(todoId, table, env.fault) IN
    IF result.threw THEN Throws(result.error, table, now, <<result.call>>)
    ELSE IF "Item" \notin DOMAIN result.output
    THEN Returns(TodoNotFound, table, now, <<result.call>>)
    ELSE Returns(createResponse(200, result.output.Item),
                 table, now, <<result.call>>)

listTodos(env, table, now) ==
    LET result == SendScan(env.order, table, env.fault) IN
    IF result.threw THEN Throws(result.error, table, now, <<result.call>>)
    ELSE Returns(createResponse(200, "todos" :> result.output.Items),
                 table, now, <<result.call>>)

\* the SET clauses when the fields are tested for truthiness
FieldClausesIfTruthy(body) ==
    (IF "title" \in DOMAIN body /\ body.title # ""
     THEN "title" :> body.title ELSE EmptyObject)
    @@ (IF "description" \in DOMAIN body /\ body.description # ""
        THEN "description" :> body.description ELSE EmptyObject)
    @@ (IF "completed" \in DOMAIN body /\ body.completed
        THEN "completed" :> body.completed ELSE EmptyObject)

\* the SET clauses updateTodo builds from the body, before updatedAt
FieldClauses(body) ==
    (IF "title" \in DOMAIN body THEN "title" :> body.title ELSE EmptyObject)
    @@ (IF "description" \in DOMAIN body
        THEN "description" :> body.description ELSE EmptyObject)
    @@ (IF "completed" \in DOMAIN body
        THEN "completed" :> body.completed ELSE EmptyObject)

updateTodo(todoId, ev, env, table, now) ==
    LET parsed == ParseBody(ev)
        body == parsed.value
        clauses == FieldClauses(body)
        sets == clauses @@ ("updatedAt" :> toISOString(env.t1))
        result == SendUpdate(todoId, sets, table, env.fault)
    IN  IF parsed.threw THEN Throws("SyntaxError", table, now, <<>>)
        ELSE IF DOMAIN clauses = {}
        THEN Returns(NoValidFields, table, now, <<>>)
        ELSE IF result.threw
        THEN IF result.error = "ValidationException"
             THEN Returns(TodoNotFound, table, env.t1, <<result.call>>)
             ELSE Throws(result.error, table, env.t1, <<result.call>>)
        ELSE Returns(createResponse(200, result.output.Attributes),
                     result.table, env.t1, <<result.call>>)

\* deleteTodo answering 404 to whatever the delete rejects with
deleteTodoCatchesAll(todoId, env, table, now) ==
    LET result == SendDelete(todoId, table, env.fault) IN
    IF result.threw
    THEN Returns(TodoNotFound, table, now, <<result.call>>)
    ELSE Returns(createResponse(204, EmptyObject), result.table, now,
                 <<result.call>>)

deleteTodo(todoId, env, table, now) ==
    LET result == SendDelete(todoId, table, env.fault) IN
    IF result.threw
    THEN IF result.error = "ConditionalCheckFailedException"
         THEN Returns(TodoNotFound, table, now, <<result.call>>)
         ELSE Throws(result.error, table, now, <<result.call>>)
    ELSE Returns(createResponse(204, EmptyObject), result.table, now,
                 <<result.call>>)

\* the switch of main: event.pathParameters?.id is NoId when the path has
\* no identifier
NoId == "<undefined>"

Dispatch(ev, env, table, now) ==
    CASE ev.httpMethod = "POST" -> createTodo(ev, env, table, now)
      [] ev.httpMethod = "GET" ->
            IF ev.id # NoId THEN getTodo(ev.id, env, table, now)
            ELSE listTodos(env, table, now)
      [] ev.httpMethod = "PUT" -> updateTodo(ev.id, ev, env, table, now)
      [] ev.httpMethod = "DELETE" -> deleteTodo(ev.id, env, table, now)
      [] OTHER -> Returns(MethodNotAllowed, table, now, <<>>)

\* main: the switch inside try, and the catch that answers 500
main(ev, env, table, now) ==
    LET done == Dispatch(ev, env, table, now) IN
    IF done.threw
    THEN Returns(InternalServerError, done.table, done.now, done.made)
    ELSE done

(**************************** state machine *******************************)
NoRequest == [httpMethod |-> "<none>", id |-> NoId, body |-> NoBody]
NoResponse == [statusCode |-> 0, headers |-> Headers, body |-> ""]

\* the table is empty when it is provisioned
\* the execution environments that run main side by side on one table
Instances == {"A", "B"}

\* an instance that holds no request
Idle == [pc |-> "idle", event |-> NoRequest, t1 |-> 0, response |-> NoResponse]

Init ==
    /\ store = EmptyObject
    /\ clock = 0
    /\ deleted = {}
    /\ event = NoRequest
    /\ response = NoResponse
    /\ calls = <<>>
    /\ writes = 0
    /\ inflight = [i \in Instances |-> Idle]

\* an environment in which nothing fails and the clock stands still
Calm == [uuid |-> NoId, t1 |-> clock, t2 |-> clock, fault |-> NoFault,
         metricFault |-> NoFault, order |-> <<>>]

\* uuidv4() yields an identifier that has keyed no item so far
FreshIds == IDs \ (DOMAIN store \cup deleted)

\* the enumerations of a set of keys
Orders(keys) ==
    {o \in [1..Cardinality(keys) -> keys] :
        \A i, j \in DOMAIN o : o[i] = o[j] => i = j}

\* the keys the DeleteCommands of a request removed
Removed(made) ==
    {made[i].key : i \in {j \in DOMAIN made :
        made[j].command = "DeleteCommand" /\ made[j].error = NoFault}}

\* the calls of a request that changed the table
Written(made) ==
    {j \in DOMAIN made :
        /\ made[j].command \in {"PutCommand", "UpdateCommand", "DeleteCommand"}
        /\ made[j].error = NoFault}

\* one invocation of main, from the event to the response; the function
\* takes an event when its previous invocation has returned
Handle(ev, env) ==
    /\ event = NoRequest
    /\ \E done \in {main(ev, env, store, clock)} :
          /\ event' = ev
          /\ response' = done.response
          /\ calls' = done.made
          /\ store' = done.table
          /\ clock' = done.now
          /\ deleted' = deleted \cup Removed(done.made)
          /\ writes' = writes + Cardinality(Written(done.made))
          /\ writes' <= MaxWrites
          /\ UNCHANGED inflight

\* POST /todos
Create ==
    \E body \in EventBodies, uuid \in FreshIds, t1 \in clock..MaxTime,
       fault \in Faults, metricFault \in MetricFaults :
      \E t2 \in t1..MaxTime :
        Handle([httpMethod |-> "POST", id |-> NoId, body |-> body],
               [Calm EXCEPT !.uuid = uuid, !.t1 = t1, !.t2 = t2,
                            !.fault = fault, !.metricFault = metricFault])

\* GET /todos/{id}
Get ==
    \E id \in IDs, fault \in Faults :
        Handle([httpMethod |-> "GET", id |-> id, body |-> NoBody],
               [Calm EXCEPT !.fault = fault])

\* GET /todos
List ==
    \E order \in Orders(DOMAIN store), fault \in Faults :
        Handle([httpMethod |-> "GET", id |-> NoId, body |-> NoBody],
               [Calm EXCEPT !.order = order, !.fault = fault])

\* PUT /todos/{id}
Update ==
    \E id \in IDs, body \in EventBodies, t1 \in clock..MaxTime,
       fault \in Faults :
        Handle([httpMethod |-> "PUT", id |-> id, body |-> body],
               [Calm EXCEPT !.t1 = t1, !.fault = fault])

\* DELETE /todos/{id}
Delete ==
    \E id \in IDs, fault \in Faults :
        Handle([httpMethod |-> "DELETE", id |-> id, body |-> NoBody],
               [Calm EXCEPT !.fault = fault])

\* any other method
OtherMethods == {"PATCH"}

Unsupported ==
    \E method \in OtherMethods, id \in IDs \cup {NoId} :
        Handle([httpMethod |-> method, id |-> id, body |-> NoBody], Calm)

\* the invocation is over: its response has gone to the caller and nothing
\* of the request stays in the function
Complete ==
    /\ event # NoRequest
    /\ event' = NoRequest
    /\ response' = NoResponse
    /\ calls' = <<>>
    /\ UNCHANGED <<store, clock, deleted, writes, inflight>>

Next ==
    Create \/ Get \/ List \/ Update \/ Delete \/ Unsupported \/ Complete

Spec == Init /\ [][Next]_vars

(********************** concurrent update requests *************************)
\* Two instances answer PUT /todos/{id} side by side.  An instance runs
\* updateTodo without interruption up to its `await docClient.send`: by
\* then it has parsed the body, built the clauses and read the clock.  The
\* table then takes the UpdateCommand as one atomic step, at any later
\* moment, and the instance returns what main makes of its outcome.
\* Items are created between the rounds of updates.

\* the bodies of the concurrent updates: single fields, two fields at
\* once, and a text that is not JSON
UpdateBodies ==
    {JSONstringify(b) : b \in {"title" :> "b", "completed" :> TRUE,
                               ("title" :> "a") @@ ("completed" :> TRUE)}}
    \cup {MalformedBody}

\* no instance holds a request
Quiet == \A i \in Instances : inflight[i].pc = "idle"

\* instance i takes a PUT and runs it up to the store call; a request
\* that makes no store call is answered at once
UpdateBegins(i) ==
    /\ inflight[i].pc = "idle"
    /\ event = NoRequest
    /\ \E id \in IDs, body \in UpdateBodies, t1 \in clock..MaxTime :
        LET ev == [httpMethod |-> "PUT", id |-> id, body |-> body] IN
        \E done \in {main(ev, [Calm EXCEPT !.t1 = t1], store, clock)} :
          /\ inflight' = [inflight EXCEPT ![i] =
                IF done.made = <<>>
                THEN [pc |-> "returned", event |-> ev, t1 |-> done.now,
                      response |-> done.response]
                ELSE [pc |-> "awaiting", event |-> ev, t1 |-> t1,
                      response |-> NoResponse]]
          /\ clock' = done.now
          /\ UNCHANGED <<store, deleted, event, response, calls, writes>>

\* the table takes the UpdateCommand of instance i, or fails it, and the
\* instance returns
UpdateSends(i) ==
    /\ inflight[i].pc = "awaiting"
    /\ \E fault \in Faults :
        \E done \in {main(inflight[i].event,
                          [Calm EXCEPT !.t1 = inflight[i].t1, !.fault = fault],
                          store, clock)} :
          /\ store' = done.table
          /\ writes' = writes + Cardinality(Written(done.made))
          /\ writes' <= MaxWrites
          /\ inflight' = [inflight EXCEPT ![i] =
                [@ EXCEPT !.pc = "returned", !.response = done.response]]
          /\ UNCHANGED <<clock, deleted, event, response, calls>>

\* both responses have gone to their callers
BothReturn ==
    /\ \A i \in Instances : inflight[i].pc = "returned"
    /\ inflight' = [i \in Instances |-> Idle]
    /\ UNCHANGED <<store, clock, deleted, event, response, calls, writes>>

Begin == \E i \in Instances : UpdateBegins(i)
Send == \E i \in Instances : UpdateSends(i)

Seed == Quiet /\ Create

NextConcurrent == Seed \/ Complete \/ Begin \/ Send \/ BothReturn

SpecConcurrent == Init /\ [][NextConcurrent]_vars

(******************************* claims ************************************)
\* the first table call of the request was failed by the table's side, not
\* by a condition the handler set
TableFault(made) == Len(made) > 0 /\ made[1].error \in Faults \ {NoFault}

\* the body of ev parses to an object
Parses(ev) == ~ParseBody(ev).threw

\* the body of ev carries at least one of title, description, completed
CarriesField(ev) ==
    /\ Parses(ev)
    /\ DOMAIN ParseBody(ev).value \cap {"title", "description", "completed"} # {}

\* C1 (as claimed): a PUT that carries at least one of title, description
\* or completed, for an identifier with no item in the store, is answered
\* 404 {error: "Todo not found"} and leaves the identifier without an item;
\* an identifier gets an item only through a create.
C1_UpdateOfMissingIsNotFound ==
    [][/\ (/\ event'.httpMethod = "PUT"
           /\ CarriesField(event')
           /\ event'.id \notin DOMAIN store
           /\ ~TableFault(calls'))
          => (/\ response'.statusCode = 404
              /\ response'.body = "{\"error\":\"Todo not found\"}"
              /\ event'.id \notin DOMAIN store')
       /\ \A id \in IDs :
            (id \notin DOMAIN store /\ id \in DOMAIN store')
                => event'.httpMethod = "POST"]_vars

\* C2 (as claimed): every item held in the store has a non-empty title.
C2_StoredTitlesNonEmpty ==
    \A id \in DOMAIN store :
        "title" \in DOMAIN store[id] /\ store[id].title # ""

\* the step is a PUT that carries a field, on an identifier that had an
\* item, and its table call was not failed
UpdatedExisting ==
    /\ event'.httpMethod = "PUT"
    /\ event'.id \in DOMAIN store
    /\ CarriesField(event')
    /\ ~TableFault(calls')

\* the step replaced exactly the fields the body defines, kept every
\* other field but updatedAt, and answered with the item after the update
ReplacedDefinedFields ==
    LET id == event'.id
        body == ParseBody(event').value
        given == DOMAIN body \cap {"title", "description", "completed"}
    IN  /\ response'.statusCode = 200
        /\ id \in DOMAIN store'
        /\ DOMAIN store'[id] = DOMAIN store[id] \cup given \cup {"updatedAt"}
        /\ \A k \in given : store'[id][k] = body[k]
        /\ \A k \in DOMAIN store[id] \ (given \cup {"updatedAt"}) :
                store'[id][k] = store[id][k]
        /\ \A k \in DOMAIN store \ {id} :
                k \in DOMAIN store' /\ store'[k] = store[k]
        /\ response'.body = JSONstringify(store'[id])

\* the reading an ISO string stands for (Date.parse)
DateParse(iso) == CHOOSE t \in Times : toISOString(t) = iso

\* C3 (as claimed): a successful update of an existing item replaces
\* exactly the defined fields, keeps the others, answers 200 with the item
\* after the update, and sets updatedAt strictly greater than it was.
C3_UpdatedAtStrictlyIncreases ==
    [][UpdatedExisting =>
        /\ ReplacedDefinedFields
        /\ DateParse(store'[event'.id].updatedAt)
              > DateParse(store[event'.id].updatedAt)]_vars

\* C3 (amended): a successful update of an existing item replaces exactly
\* the defined fields, keeps the others, answers 200 with the item after
\* the update, and sets updatedAt to the clock reading the update took
\* (the prior updatedAt again when no millisecond has passed since).
C3_UpdateSetsUpdatedAtToReading ==
    [][UpdatedExisting =>
        /\ ReplacedDefinedFields
        /\ store'[event'.id].updatedAt = toISOString(clock')]_vars

\* C3 witness: an update that set completed to false and left a title and
\* a description in place was answered 200 at a later reading than the
\* item's creation
C3_Witness ==
    /\ event.httpMethod = "PUT"
    /\ response.statusCode = 200
    /\ event.body = JSONstringify("completed" :> FALSE)
    /\ event.id \in DOMAIN store
    /\ "createdAt" \in DOMAIN store[event.id]
    /\ store[event.id].description = "d"
    /\ store[event.id].createdAt # store[event.id].updatedAt

\* the item a create wrote
Created == store[calls[1].key]

\* the create was answered 201
CreateSucceeded == event.httpMethod = "POST" /\ response.statusCode = 201

\* C4 (as claimed): the item a create returns and stores has createdAt
\* equal to updatedAt.
C4_CreatedAtEqualsUpdatedAt ==
    CreateSucceeded => Created.createdAt = Created.updatedAt

\* C5 (as claimed): a successful delete is answered 204 with an empty body.
C5_DeleteBodyEmpty ==
    (event.httpMethod = "DELETE" /\ response.statusCode = 204)
        => response.body = ""

\* the first table call of the request went through
TableCallWentThrough(made) == Len(made) > 0 /\ made[1].error = NoFault

\* C6 (as claimed): a delete of an identifier present in the store is
\* answered 204 and removes the item, and from then on a get on that
\* identifier is answered 404 until a create yields it; a delete of an
\* identifier absent from the store is answered 404 {error: "Todo not
\* found"} and leaves the store as it was.
C6_DeletedStaysNotFound ==
    [][/\ (/\ event'.httpMethod = "DELETE"
           /\ event'.id \in DOMAIN store
           /\ ~TableFault(calls'))
          => (/\ response'.statusCode = 204
              /\ event'.id \notin DOMAIN store')
       /\ (/\ event'.httpMethod = "DELETE"
           /\ event'.id \notin DOMAIN store
           /\ ~TableFault(calls'))
          => (/\ response'.statusCode = 404
              /\ response'.body = "{\"error\":\"Todo not found\"}"
              /\ store' = store)
       /\ (/\ event'.httpMethod = "GET"
           /\ event'.id \in deleted
           /\ TableCallWentThrough(calls'))
          => response'.statusCode = 404]_vars

\* the request is one the handler rejects as the client's error
MissingTitle(ev) ==
    /\ ev.httpMethod = "POST"
    /\ Parses(ev)
    /\ LET body == ParseBody(ev).value IN
         "title" \notin DOMAIN body \/ body.title = ""
NothingToUpdate(ev) ==
    /\ ev.httpMethod = "PUT"
    /\ Parses(ev)
    /\ DOMAIN ParseBody(ev).value \cap {"title", "description", "completed"} = {}
UnknownMethod(ev) ==
    ev # NoRequest /\ ev.httpMethod \notin {"POST", "GET", "PUT", "DELETE"}

\* C7: a create without a title or with an empty one is answered 400
\* {error: "Title is required"}, an update whose body has none of title,
\* description, completed is answered 400 {error: "No valid fields to
\* update"}, and any method but POST, GET, PUT, DELETE is answered 405
\* {error: "Method not allowed"}; in all three cases the handler calls
\* neither the table nor the metric sink and the store is unchanged.
C7_ClientErrorsReachNoCollaborator ==
    [][/\ MissingTitle(event')
            => (/\ response'.statusCode = 400
                /\ response'.body = "{\"error\":\"Title is required\"}")
       /\ NothingToUpdate(event')
            => (/\ response'.statusCode = 400
                /\ response'.body = "{\"error\":\"No valid fields to update\"}")
       /\ UnknownMethod(event')
            => (/\ response'.statusCode = 405
                /\ response'.body = "{\"error\":\"Method not allowed\"}")
       /\ (MissingTitle(event') \/ NothingToUpdate(event') \/ UnknownMethod(event'))
            => (calls' = <<>> /\ store' = store)]_vars

\* C7 witness: a create with an empty title was answered 400 while the
\* store held an item
C7_Witness ==
    /\ event.httpMethod = "POST"
    /\ event.body = JSONstringify("title" :> "")
    /\ response.statusCode = 400
    /\ calls = <<>>
    /\ DOMAIN store # {}

\* the error is the one the operation reads as "no such item"
NotFoundSignal(ev, error) ==
    \/ ev.httpMethod = "PUT" /\ error = "ValidationException"
    \/ ev.httpMethod = "DELETE" /\ error = "ConditionalCheckFailedException"

\* a table call of the request failed with something else
TableCallFailed ==
    \E i \in DOMAIN calls :
        /\ calls[i].service = "dynamodb"
        /\ calls[i].error # NoFault
        /\ ~NotFoundSignal(event, calls[i].error)

\* C8: in every operation, a table call that fails with an error other
\* than the not-found signal of that operation is answered with status 500
\* and body exactly {error: "Internal server error"}.
C8_TableFailureIs500 ==
    TableCallFailed =>
        /\ response.statusCode = 500
        /\ response.body = "{\"error\":\"Internal server error\"}"

\* C8 witness: a delete whose table call was rejected as invalid was
\* answered 500
C8_Witness ==
    /\ event.httpMethod = "DELETE"
    /\ Len(calls) = 1
    /\ calls[1].error = "ValidationException"
    /\ response.statusCode = 500

\* the create of the request wrote its item
CreateWrote ==
    /\ event.httpMethod = "POST"
    /\ Len(calls) > 0
    /\ calls[1].command = "PutCommand"
    /\ calls[1].error = NoFault

\* C9: a create whose write succeeds makes exactly one metric call, after
\* the write, for TodoCreatedCount with value 1, and is answered 201 with
\* the created item whether that call succeeds or fails.
C9_MetricFailureNeverFailsCreate ==
    CreateWrote =>
        /\ Len(calls) = 2
        /\ calls[2].service = "cloudwatch"
        /\ calls[2].metricName = "TodoCreatedCount"
        /\ calls[2].value = 1
        /\ response.statusCode = 201
        /\ response.body = JSONstringify(Created)

\* C9 witness: a create whose metric call failed was answered 201
C9_Witness ==
    /\ CreateWrote
    /\ Len(calls) = 2
    /\ calls[2].error # NoFault
    /\ response.statusCode = 201

\* a POST with a non-empty title whose write was not failed by the table
ValidCreate(ev, made) ==
    /\ ev.httpMethod = "POST"
    /\ Parses(ev)
    /\ ~MissingTitle(ev)
    /\ TableCallWentThrough(made)

\* C10: a create with a non-empty title is answered 201 and adds exactly
\* one item, under an identifier no other stored item has; the stored item
\* is the response body, with the given title, completed false and the
\* given description, or the empty string when none is given; no item
\* that was there is modified.
C10_CreateAddsOneItem ==
    [][ValidCreate(event', calls') =>
        \E id \in IDs \ DOMAIN store :
            LET body == ParseBody(event').value IN
            /\ DOMAIN store' = DOMAIN store \cup {id}
            /\ \A k \in DOMAIN store : store'[k] = store[k]
            /\ response'.statusCode = 201
            /\ response'.body = JSONstringify(store'[id])
            /\ store'[id].todoId = id
            /\ store'[id].title = body.title
            /\ store'[id].completed = FALSE
            /\ store'[id].description =
                  (IF "description" \in DOMAIN body THEN body.description
                   ELSE "")]_vars

\* C10 witness: a create with a description was answered 201 and the store
\* holds a second item beside the created one
C10_Witness ==
    /\ CreateSucceeded
    /\ Created.description = "d"
    /\ Cardinality(DOMAIN store) = 2

\* the item under key id carries its key as identifier and a createdAt
CarriesIdentity(table, id) ==
    /\ "todoId" \in DOMAIN table[id]
    /\ table[id].todoId = id
    /\ "createdAt" \in DOMAIN table[id]

\* C11: after any sequence of create, update and delete requests every
\* stored item carries its store key as identifier and the createdAt its
\* create wrote: a request that stores an item under a new key writes both,
\* and no request changes either on an item that stays stored.
C11_IdentifierAndCreatedAtKept ==
    [][\A id \in DOMAIN store' :
          /\ CarriesIdentity(store', id)
          /\ id \in DOMAIN store =>
                store'[id].createdAt = store[id].createdAt]_vars

\* a GET with an identifier whose GetCommand was not failed by the table
GetById(ev, made) ==
    /\ ev.httpMethod = "GET"
    /\ ev.id # NoId
    /\ TableCallWentThrough(made)

\* C12: a get by identifier answers 404 {"error":"Todo not found"} when the
\* store has no item under the identifier and otherwise 200 with the stored
\* item as body, field for field; no get, failed or not, changes the store.
C12_GetReturnsStoredItem ==
    [][/\ GetById(event', calls') =>
            IF event'.id \in DOMAIN store
            THEN /\ response'.statusCode = 200
                 /\ response'.body = JSONstringify(store[event'.id])
            ELSE /\ response'.statusCode = 404
                 /\ response'.body = "{\"error\":\"Todo not found\"}"
       /\ event'.httpMethod = "GET" => store' = store]_vars

\* C12 witness: a get of a stored item was answered 200 with that item, and
\* another identifier has no item
C12_Witness ==
    /\ GetById(event, calls)
    /\ event.id \in DOMAIN store
    /\ response.statusCode = 200
    /\ response.body = JSONstringify(store[event.id])
    /\ DOMAIN store # IDs

\* instance i has answered a PUT with 200
Answered200(i) ==
    /\ inflight[i].pc = "returned"
    /\ inflight[i].response.statusCode = 200

\* the fields the request of instance i asks to set, with their values
Requested(i) ==
    LET body == ParseBody(inflight[i].event).value IN
    [k \in DOMAIN body \cap {"title", "description", "completed"} |-> body[k]]

\* both instances have answered 200 to updates of the same item that set
\* disjoint fields
DisjointUpdatesDone ==
    /\ \A i \in Instances : Answered200(i)
    /\ inflight["A"].event.id = inflight["B"].event.id
    /\ DOMAIN Requested("A") \cap DOMAIN Requested("B") = {}

\* C13: two concurrent updates of the same item that set disjoint fields
\* both take effect in every interleaving: once both have answered 200 the
\* stored item holds every value either of them asked for.
C13_DisjointUpdatesBothTakeEffect ==
    DisjointUpdatesDone =>
        LET id == inflight["A"].event.id IN
        /\ id \in DOMAIN store
        /\ \A i \in Instances : \A k \in DOMAIN Requested(i) :
              /\ k \in DOMAIN store[id]
              /\ store[id][k] = Requested(i)[k]

\* C13 witness: an item written by a create (it has a createdAt), created
\* with another title and completed false, has taken title "b" from
\* instance A and completed true from instance B, both answered 200; B
\* read its clock before A did and its store call came after A's
C13_Witness ==
    /\ DisjointUpdatesDone
    /\ "createdAt" \in DOMAIN store[inflight["A"].event.id]
    /\ Requested("A") = ("title" :> "b")
    /\ Requested("B") = ("completed" :> TRUE)
    /\ store[inflight["A"].event.id].title = "b"
    /\ store[inflight["A"].event.id].completed = TRUE
    /\ inflight["A"].t1 > inflight["B"].t1
    /\ store[inflight["A"].event.id].updatedAt = toISOString(inflight["B"].t1)

====
